---- MODULE Spec2Model ----
(***************************************************************************)
(* Model of the SSE transport (src/server/sse.ts), the session registry    *)
(* (src/server/session-store.ts) and the HTTP routes and shutdown handler  *)
(* of the server entry point (the file held as src/unnamed/part_001).      *)
(*                                                                         *)
(* Scheduling.  The program runs on a single-threaded event loop.  A       *)
(* handler runs to completion up to an await.  None of the promises that   *)
(* the handlers of the SSE routes await is settled by I/O (close(),        *)
(* start(), send() and handlePostMessage() contain no await), so every     *)
(* continuation is a microtask and runs before the event loop takes the    *)
(* next request, signal or socket event.  The positions getPc and          *)
(* closeAll.pc record such pending continuations, and every action that    *)
(* is started by an event-loop event is guarded by NoPending.              *)
(***************************************************************************)
EXTENDS Integers, Sequences, FiniteSets, TLC

\* ----------------------------------------------------------------- bounds
MaxTransports == 2      \* transports constructed in one run
MaxSends == 2           \* accepted send() calls in one run
MaxPosts == 1           \* onmessage invocations in one run
MaxFaults == 1          \* operations in one run during which a write or end() throws
NumIds == MaxTransports + 1   \* size of the pool uuidv4 draws from

T == 1..MaxTransports
Ids == 1..NumIds
Bodies == {"b1"}        \* request bodies of POST /messages

NoId == 0               \* req.query.sessionId is undefined
Undefined == 0          \* Map.get on an absent key

VARIABLES
    nT,            \* number of SSEServerTransport objects constructed so far
    sessionId,     \* sessionId[t]: the readonly field set by the constructor
    closed,        \* closed[t]: the private closed flag
    onclose,       \* onclose[t]: "unset", "cleanup" (the route's closure) or "server"
    onerror,       \* onerror[t]: "unset" or "server"
    onmessage,     \* onmessage[t]: "unset" or "server"
    sink,          \* sink[t]: chunks accepted by response.write, in order
    endCalls,      \* endCalls[t]: calls of response.end()
    oncloseCalls,  \* oncloseCalls[t]: invocations of the onclose callback
    onerrorCalls,  \* onerrorCalls[t]: invocations of the onerror callback
    attempts,      \* attempts[t]: event kinds passed to sendEvent, in order
    delivered,     \* delivered[t]: messages passed to the onmessage callback
    sentOk,        \* sentOk[t]: messages of the send() calls whose writes succeeded
    getPc,         \* getPc[t]: position of the GET /mcp handler that built t
    sessions,      \* SessionStore.sessions: session id -> transport
    closeAll,      \* position of closeAllSessions() and, while it runs, its snapshot
                   \* (all, those open at the call, those whose close met a throw)
    sdk,           \* what server.connect() of the installed RPC library does
    faults,        \* operations so far during which a write or end() threw
    shutdown,      \* position of the process and of its SIGINT listener, and the
                   \* order of what the listener did
    result         \* outcome of the last operation, as seen by its caller

vars == <<nT, sessionId, closed, onclose, onerror, onmessage, sink, endCalls,
          oncloseCalls, onerrorCalls, attempts, delivered, sentOk, getPc,
          sessions, closeAll, sdk, faults, shutdown, result>>

\* ------------------------------------------------------------ wire format
\* JSON.stringify: an encoding of the value, distinct from the value itself
JSONstringify(v) == <<"json", v>>

\* the two response.write calls of one frame
EventLine(event) == <<"event", event>>
DataLine(data) == <<"data", data>>

messageEndpoint == "/messages"
endpointPayload(id) == JSONstringify([endpoint |-> <<messageEndpoint, "?sessionId=", id>>])
closePayload == JSONstringify([reason |-> "Server closing connection"])

\* Outcome of the two writes of sendEvent: 0 both succeed, 1 the first throws,
\* 2 the first succeeds and the second throws.
WriteOutcomes == 0..2
Failures == [cw : WriteOutcomes, e : BOOLEAN]
NoFailure == [cw |-> 0, e |-> FALSE]

\* the failure inputs that a call can observe: nothing is written for a
\* closed transport, and the close sequence runs only after a failed write
WritesFor(isOpen) == IF isOpen THEN WriteOutcomes ELSE {0}

FailuresFor(w) == IF w = 0 THEN {NoFailure} ELSE Failures

Relevant(isOpen, w, f) ==
    /\ w \in WritesFor(isOpen)
    /\ f \in FailuresFor(w)

Faulty(w, f) == w # 0 \/ f # NoFailure

written(event, data, w) ==
    IF w = 0 THEN <<EventLine(event), DataLine(data)>>
    ELSE IF w = 1 THEN <<>>
    ELSE <<EventLine(event)>>

\* ------------------------------------------------------------ SessionStore
EmptyMap == [k \in {} |-> Undefined]

registerSession(map, id, t) ==
    [k \in (DOMAIN map) \cup {id} |-> IF k = id THEN t ELSE map[k]]

getSession(map, id) == IF id \in DOMAIN map THEN map[id] ELSE Undefined

\* a removal that deletes nothing
removeSession_keep(map, id) == map

removeSession(map, id) == [k \in (DOMAIN map) \ {id} |-> map[k]]

removeSessionResult(map, id) == id \in DOMAIN map

values(map) == {map[k] : k \in DOMAIN map}

\* ------------------------------------------------------ transport methods
\* The mutable state a transport method can touch, as one record.
State ==
    [sessionId |-> sessionId, closed |-> closed, onclose |-> onclose,
     onerror |-> onerror, sink |-> sink, endCalls |-> endCalls,
     oncloseCalls |-> oncloseCalls, onerrorCalls |-> onerrorCalls,
     attempts |-> attempts, sessions |-> sessions]

Commit(s) ==
    /\ sessionId' = s.sessionId
    /\ closed' = s.closed
    /\ onclose' = s.onclose
    /\ onerror' = s.onerror
    /\ sink' = s.sink
    /\ endCalls' = s.endCalls
    /\ oncloseCalls' = s.oncloseCalls
    /\ onerrorCalls' = s.onerrorCalls
    /\ attempts' = s.attempts
    /\ sessions' = s.sessions

\* a cleanup closure that empties the registry instead of removing one id
invokeOnclose_removesAll(st, t) ==
    IF st.onclose[t] = "unset" THEN st
    ELSE LET s1 == [st EXCEPT !.oncloseCalls[t] = @ + 1]
         IN IF st.onclose[t] = "cleanup"
            THEN [s1 EXCEPT !.sessions = EmptyMap]
            ELSE s1

\* if (this.onclose) this.onclose();  the route's closure removes the session
invokeOnclose(st, t) ==
    IF st.onclose[t] = "unset" THEN st
    ELSE LET s1 == [st EXCEPT !.oncloseCalls[t] = @ + 1]
         IN IF st.onclose[t] = "cleanup"
            THEN [s1 EXCEPT !.sessions = removeSession(@, st.sessionId[t])]
            ELSE s1

\* if (this.onerror && error instanceof Error) this.onerror(error);
invokeOnerror(st, t) ==
    IF st.onerror[t] = "unset" THEN st
    ELSE [st EXCEPT !.onerrorCalls[t] = @ + 1]

RECURSIVE close(_, _, _), sendEvent(_, _, _, _, _, _)

\* onclose invoked after the if block instead of inside it
close_oncloseOutsideGuard(st, t, f) ==
    IF st.closed[t] THEN invokeOnclose(st, t)
    ELSE LET s1 == [st EXCEPT !.closed[t] = TRUE]
             s2 == sendEvent(s1, t, "close", closePayload, f.cw, f)
             s3 == [s2 EXCEPT !.endCalls[t] = @ + 1]
             s4 == IF f.e THEN invokeOnerror(s3, t) ELSE s3
         IN invokeOnclose(s4, t)

\* a close() that writes its envelope twice
close_twoEnvelopes(st, t, f) ==
    IF st.closed[t] THEN st
    ELSE LET s1 == [st EXCEPT !.closed[t] = TRUE]
             s2 == sendEvent(s1, t, "close", closePayload, f.cw, f)
             s3 == sendEvent(s2, t, "close", closePayload, f.cw, f)
             s4 == [s3 EXCEPT !.endCalls[t] = @ + 1]
             s5 == IF f.e THEN invokeOnerror(s4, t) ELSE s4
         IN invokeOnclose(s5, t)

close(st, t, f) ==
    IF st.closed[t] THEN st
    ELSE LET s1 == [st EXCEPT !.closed[t] = TRUE]
             s2 == sendEvent(s1, t, "close", closePayload, f.cw, f)
             s3 == [s2 EXCEPT !.endCalls[t] = @ + 1]
             s4 == IF f.e THEN invokeOnerror(s3, t) ELSE s3
         IN invokeOnclose(s4, t)

\* a frame put in front of what was written before, not after it
sendEvent_prepend(st, t, event, data, w, f) ==
    LET s0 == [st EXCEPT !.attempts[t] = Append(@, event)]
        s1 == [s0 EXCEPT !.sink[t] = written(event, data, w) \o @]
    IN IF w = 0 THEN s1
       ELSE close(invokeOnerror(s1, t), t, f)

\* a catch branch that reports the error and leaves the transport open
sendEvent_noClose(st, t, event, data, w, f) ==
    LET s0 == [st EXCEPT !.attempts[t] = Append(@, event)]
        s1 == [s0 EXCEPT !.sink[t] = @ \o written(event, data, w)]
    IN IF w = 0 THEN s1
       ELSE invokeOnerror(s1, t)

sendEvent(st, t, event, data, w, f) ==
    LET s0 == [st EXCEPT !.attempts[t] = Append(@, event)]
        s1 == [s0 EXCEPT !.sink[t] = @ \o written(event, data, w)]
    IN IF w = 0 THEN s1
       ELSE close(invokeOnerror(s1, t), t, f)

\* start(), send(): [st |-> state after the call, threw |-> the call rejected]
start(st, t, w, f) ==
    IF st.closed[t] THEN [st |-> st, threw |-> TRUE]
    ELSE [st |-> sendEvent(st, t, "endpoint", endpointPayload(st.sessionId[t]), w, f),
          threw |-> FALSE]

\* send() without the closed check
send_unguarded(st, t, message, w, f) ==
    [st |-> sendEvent(st, t, "message", JSONstringify(message), w, f),
     threw |-> FALSE]

send(st, t, message, w, f) ==
    IF st.closed[t] THEN [st |-> st, threw |-> TRUE]
    ELSE [st |-> sendEvent(st, t, "message", JSONstringify(message), w, f),
          threw |-> FALSE]

\* the 'close' listener without the closed check
onResponseClose_unguarded(st, t) ==
    invokeOnclose([st EXCEPT !.closed[t] = TRUE], t)

\* response.on('close', ...) installed by the constructor
onResponseClose(st, t) ==
    IF st.closed[t] THEN st
    ELSE invokeOnclose([st EXCEPT !.closed[t] = TRUE], t)

\* a generator that repeats itself
uuidv4_repeating(issued) == {CHOOSE i \in Ids : \A j \in Ids : i <= j}

\* uuidv4(): a value no earlier call returned (the next unused one of the pool)
uuidv4(issued) == {CHOOSE i \in Ids \ issued : \A j \in Ids \ issued : i <= j}

Issued == {sessionId[t] : t \in 1..nT}

Constructed == 1..nT

\* res.headersSent of the stream's response
headersSent(st, t) == Len(st.sink[t]) > 0 \/ st.endCalls[t] > 0

RECURSIVE SumLen(_, _)
SumLen(q, S) ==
    IF S = {} THEN 0
    ELSE LET t == CHOOSE x \in S : TRUE IN Len(q[t]) + SumLen(q, S \ {t})

\* one more operation with a throwing write or end(), within the budget
Inject(w, f) ==
    IF Faulty(w, f) THEN faults < MaxFaults /\ faults' = faults + 1
    ELSE faults' = faults

\* an await in closeAllSessions() that lets the event loop take other events
NoPending_yieldsInCloseAll ==
    \A t \in T : getPc[t] # "awaitConnect"

\* a continuation of an async handler is queued as a microtask
NoPending ==
    /\ closeAll.pc = "idle"
    /\ \A t \in T : getPc[t] # "awaitConnect"

Res(op, val, t) == [op |-> op, val |-> val]

\* -------------------------------------------------------------------- Init
Init ==
    /\ nT = 0
    /\ sessionId = [t \in T |-> NoId]
    /\ closed = [t \in T |-> FALSE]
    /\ onclose = [t \in T |-> "unset"]
    /\ onerror = [t \in T |-> "unset"]
    /\ onmessage = [t \in T |-> "unset"]
    /\ sink = [t \in T |-> <<>>]
    /\ endCalls = [t \in T |-> 0]
    /\ oncloseCalls = [t \in T |-> 0]
    /\ onerrorCalls = [t \in T |-> 0]
    /\ attempts = [t \in T |-> <<>>]
    /\ delivered = [t \in T |-> <<>>]
    /\ sentOk = [t \in T |-> <<>>]
    /\ getPc = [t \in T |-> "idle"]
    /\ sessions = EmptyMap
    /\ closeAll = [pc |-> "idle", snapshot |-> {}, open |-> {}, failed |-> {}]
    /\ sdk \in [chains : BOOLEAN, starts : BOOLEAN]
    /\ faults = 0
    /\ shutdown = [pc |-> "running", log |-> <<>>]
    /\ result = Res("none", "none", Undefined)

\* ------------------------------------------------------------ GET /mcp
\* The handler up to its first await: constructor, registerSession, the
\* onclose assignment and the synchronous part of server.connect(transport).
\* connect() belongs to the RPC library: it installs its own onerror and
\* onmessage, either keeps the route's onclose reachable (sdk.chains) or
\* replaces it, and may call transport.start() itself (sdk.starts).
GetMcpEnter(id, w, f) ==
    /\ NoPending
    /\ nT < MaxTransports
    /\ id \in uuidv4(Issued)
    /\ Relevant(sdk.starts, w, f)
    /\ Inject(w, f)
    /\ LET t == nT + 1
           s0 == [State EXCEPT !.sessionId[t] = id]
           s1 == [s0 EXCEPT !.sessions = registerSession(@, id, t)]
           s2 == [s1 EXCEPT !.onclose[t] = "cleanup"]
           s3 == [s2 EXCEPT !.onclose[t] = IF sdk.chains THEN @ ELSE "server",
                            !.onerror[t] = "server"]
           s4 == IF sdk.starts THEN start(s3, t, w, f).st ELSE s3
       IN /\ Commit(s4)
          /\ nT' = t
          /\ onmessage' = [onmessage EXCEPT ![t] = "server"]
          /\ getPc' = [getPc EXCEPT ![t] = "awaitConnect"]
          /\ result' = Res("get", "pending", t)
    /\ UNCHANGED <<delivered, sentOk, closeAll, sdk>>

\* The handler after `await server.connect(transport)`: transport.start(),
\* and the catch block when start() rejects.
GetMcpResume(t, w, f) ==
    /\ getPc[t] = "awaitConnect"
    /\ Relevant(~closed[t], w, f)
    /\ Inject(w, f)
    /\ LET r == start(State, t, w, f)
       IN /\ Commit(r.st)
          /\ getPc' = [getPc EXCEPT ![t] = IF r.threw THEN "failed" ELSE "done"]
          /\ result' = Res("get", IF ~r.threw THEN "ok"
                                  ELSE IF headersSent(r.st, t) THEN "error"
                                  ELSE "500", t)
    /\ UNCHANGED <<nT, onmessage, delivered, sentOk, closeAll, sdk>>

\* --------------------------------------------------------- POST /messages
\* the HTTP responses among the events of a request's trace
IsResponse(e) == e \in {"200", "400", "404", "500"}

Responses(trace) == SelectSeq(trace, IsResponse)

\* a handler that acknowledges without invoking the callback
handlePostMessage_dropsMessage(st, dl, om, t, body, throws) ==
    IF st.closed[t]
    THEN [st |-> st, delivered |-> dl, status |-> "closed", trace |-> <<>>]
    ELSE [st |-> st, delivered |-> dl, status |-> "200", trace |-> <<"200">>]

\* a handler that acknowledges first and invokes the callback afterwards
handlePostMessage_ackFirst(st, dl, om, t, body, throws) ==
    IF st.closed[t]
    THEN [st |-> st, delivered |-> dl, status |-> "closed", trace |-> <<>>]
    ELSE LET called == om[t] # "unset"
             dl1 == IF called THEN [dl EXCEPT ![t] = Append(@, body)] ELSE dl
         IN IF called /\ throws
            THEN [st |-> invokeOnerror(st, t), delivered |-> dl1, status |-> "200",
                  trace |-> <<"200", "onmessage", "onerror">>]
            ELSE [st |-> st, delivered |-> dl1, status |-> "200",
                  trace |-> <<"200">> \o (IF called THEN <<"onmessage">> ELSE <<>>)]

\* a catch block that reports the error and sends no response
handlePostMessage_swallows(st, dl, om, t, body, throws) ==
    IF st.closed[t]
    THEN [st |-> st, delivered |-> dl, status |-> "closed", trace |-> <<>>]
    ELSE LET called == om[t] # "unset"
             dl1 == IF called THEN [dl EXCEPT ![t] = Append(@, body)] ELSE dl
         IN IF called /\ throws
            THEN [st |-> invokeOnerror(st, t), delivered |-> dl1, status |-> "none",
                  trace |-> <<"onmessage", "onerror">>]
            ELSE [st |-> st, delivered |-> dl1, status |-> "200",
                  trace |-> (IF called THEN <<"onmessage">> ELSE <<>>) \o <<"200">>]

\* a callback failure that closes the transport
handlePostMessage_closesOnThrow(st, dl, om, t, body, throws) ==
    IF st.closed[t]
    THEN [st |-> st, delivered |-> dl, status |-> "closed", trace |-> <<>>]
    ELSE LET called == om[t] # "unset"
             dl1 == IF called THEN [dl EXCEPT ![t] = Append(@, body)] ELSE dl
         IN IF called /\ throws
            THEN [st |-> close(invokeOnerror(st, t), t, NoFailure), delivered |-> dl1,
                  status |-> "500", trace |-> <<"onmessage", "onerror", "500">>]
            ELSE [st |-> st, delivered |-> dl1, status |-> "200",
                  trace |-> (IF called THEN <<"onmessage">> ELSE <<>>) \o <<"200">>]

\* [st, delivered, status, trace]; status "closed" stands for the thrown
\* 'Transport is closed' error, trace is what the call did, in order: the
\* callbacks it invoked and the response it sent
handlePostMessage(st, dl, om, t, body, throws) ==
    IF st.closed[t]
    THEN [st |-> st, delivered |-> dl, status |-> "closed", trace |-> <<>>]
    ELSE LET called == om[t] # "unset"
             dl1 == IF called THEN [dl EXCEPT ![t] = Append(@, body)] ELSE dl
         IN IF called /\ throws
            THEN [st |-> invokeOnerror(st, t), delivered |-> dl1, status |-> "500",
                  trace |-> <<"onmessage">>
                            \o (IF st.onerror[t] # "unset" THEN <<"onerror">> ELSE <<>>)
                            \o <<"500">>]
            ELSE [st |-> st, delivered |-> dl1, status |-> "200",
                  trace |-> (IF called THEN <<"onmessage">> ELSE <<>>) \o <<"200">>]

\* the route's catch block: a 500 unless a response was already sent
routeCatch(trace) ==
    IF Len(Responses(trace)) = 0 THEN Append(trace, "500") ELSE trace

\* the route acknowledging a request for a session it did not find
postMessages_ackUnknown(st, dl, om, sid, body, throws) ==
    IF sid = NoId
    THEN [st |-> st, delivered |-> dl, status |-> "400", t |-> Undefined,
          lookups |-> 0, trace |-> <<"400">>]
    ELSE LET transport == getSession(st.sessions, sid)
         IN IF transport = Undefined
            THEN [st |-> st, delivered |-> dl, status |-> "200", t |-> Undefined,
                  lookups |-> 1, trace |-> <<"200">>]
            ELSE LET r == handlePostMessage(st, dl, om, transport, body, throws)
                 IN [st |-> r.st, delivered |-> r.delivered,
                     status |-> IF r.status = "closed" THEN "500" ELSE r.status,
                     t |-> transport, lookups |-> 1,
                     trace |-> IF r.status = "closed" THEN routeCatch(r.trace)
                               ELSE r.trace]

\* the route looking the session up before it checks the parameter
postMessages_lookupFirst(st, dl, om, sid, body, throws) ==
    LET transport == getSession(st.sessions, sid)
    IN IF transport = Undefined
       THEN [st |-> st, delivered |-> dl, status |-> "404", t |-> Undefined,
             lookups |-> 1, trace |-> <<"404">>]
       ELSE LET r == handlePostMessage(st, dl, om, transport, body, throws)
            IN [st |-> r.st, delivered |-> r.delivered,
                status |-> IF r.status = "closed" THEN "500" ELSE r.status,
                t |-> transport, lookups |-> 1,
                trace |-> IF r.status = "closed" THEN routeCatch(r.trace)
                          ELSE r.trace]

\* the route: [st, delivered, status, t, lookups, trace]; t is the transport
\* that was found, lookups the number of getSession calls made, trace the
\* callbacks invoked and the responses sent, in order
postMessages(st, dl, om, sid, body, throws) ==
    IF sid = NoId
    THEN [st |-> st, delivered |-> dl, status |-> "400", t |-> Undefined,
          lookups |-> 0, trace |-> <<"400">>]
    ELSE LET transport == getSession(st.sessions, sid)
         IN IF transport = Undefined
            THEN [st |-> st, delivered |-> dl, status |-> "404", t |-> Undefined,
                  lookups |-> 1, trace |-> <<"404">>]
            ELSE LET r == handlePostMessage(st, dl, om, transport, body, throws)
                 IN [st |-> r.st, delivered |-> r.delivered,
                     status |-> IF r.status = "closed" THEN "500" ELSE r.status,
                     t |-> transport, lookups |-> 1,
                     trace |-> IF r.status = "closed" THEN routeCatch(r.trace)
                               ELSE r.trace]

Post(sid, body, throws) ==
    /\ NoPending
    /\ LET r == postMessages(State, delivered, onmessage, sid, body, throws)
       IN /\ throws => r.delivered # delivered
          /\ r.delivered # delivered => SumLen(delivered, T) < MaxPosts
          /\ Commit(r.st)
          /\ delivered' = r.delivered
          /\ result' = Res("post", r.status, r.t)
    /\ UNCHANGED <<nT, onmessage, sentOk, getPc, closeAll, sdk, faults>>

\* ------------------------------------------- calls through the interface
\* the message of the next send(): every accepted call carries a new one
NextMessage == [id |-> SumLen(sentOk, T) + 1]

\* transport.send(message), as the RPC server calls it for replies
Send(t, message, w, f) ==
    /\ NoPending
    /\ t \in Constructed
    /\ closed[t] \/ SumLen(sentOk, T) < MaxSends
    /\ message = NextMessage
    /\ Relevant(~closed[t], w, f)
    /\ Inject(w, f)
    /\ LET r == send(State, t, message, w, f)
       IN /\ Commit(r.st)
          /\ sentOk' = IF ~r.threw /\ w = 0
                       THEN [sentOk EXCEPT ![t] = Append(@, message)]
                       ELSE sentOk
          /\ result' = Res("send", IF r.threw THEN "Transport is closed" ELSE "ok", t)
    /\ UNCHANGED <<nT, onmessage, delivered, getPc, closeAll, sdk>>

\* transport.close() called by a holder of the transport
Close(t, f) ==
    /\ NoPending
    /\ t \in Constructed
    /\ closed[t] => f = NoFailure
    /\ Inject(0, f)
    /\ Commit(close(State, t, f))
    /\ result' = Res("close", "ok", t)
    /\ UNCHANGED <<nT, onmessage, delivered, sentOk, getPc, closeAll, sdk>>

\* the 'close' event of the stream's response
Disconnect(t) ==
    /\ NoPending
    /\ t \in Constructed
    /\ Commit(onResponseClose(State, t))
    /\ result' = Res("disconnect", "event", t)
    /\ UNCHANGED <<nT, onmessage, delivered, sentOk, getPc, closeAll, sdk, faults>>

\* a removal that also closes the transport it removes
RemoveSession_closing(id) ==
    /\ NoPending
    /\ LET t == getSession(sessions, id)
           s1 == IF t = Undefined THEN State ELSE close(State, t, NoFailure)
       IN Commit([s1 EXCEPT !.sessions = removeSession(@, id)])
    /\ result' = Res("removeSession",
                     IF removeSessionResult(sessions, id) THEN "true" ELSE "false",
                     Undefined)
    /\ UNCHANGED <<nT, onmessage, delivered, sentOk, getPc, closeAll, sdk, faults>>

\* sessionStore.removeSession(id) and getSession(id) called directly
RemoveSession(id) ==
    /\ NoPending
    /\ sessions' = removeSession(sessions, id)
    /\ result' = Res("removeSession",
                     IF removeSessionResult(sessions, id) THEN "true" ELSE "false",
                     Undefined)
    /\ UNCHANGED <<nT, sessionId, closed, onclose, onerror, onmessage, sink,
                   endCalls, oncloseCalls, onerrorCalls, attempts, delivered,
                   sentOk, getPc, closeAll, sdk, faults>>

\* sessionStore.registerSession(transport) called directly with a transport
\* that exists; the method has one path and one log line ("registered")
RegisterSession(t) ==
    /\ NoPending
    /\ t \in Constructed
    /\ sessions' = registerSession(sessions, sessionId[t], t)
    /\ result' = Res("registerSession", "registered", t)
    /\ UNCHANGED <<nT, sessionId, closed, onclose, onerror, onmessage, sink,
                   endCalls, oncloseCalls, onerrorCalls, attempts, delivered,
                   sentOk, getPc, closeAll, sdk, faults>>

GetSession(id) ==
    /\ NoPending
    /\ result' = Res("getSession",
                     IF getSession(sessions, id) = Undefined THEN "undefined"
                     ELSE "transport",
                     getSession(sessions, id))
    /\ UNCHANGED <<nT, sessionId, closed, onclose, onerror, onmessage, sink,
                   endCalls, oncloseCalls, onerrorCalls, attempts, delivered,
                   sentOk, getPc, sessions, closeAll, sdk, faults>>

\* ------------------------------------------------------- closeAllSessions
\* a loop that gives up at the first transport whose close met a throw
RECURSIVE closeEach_stopOnFailure(_, _, _)
closeEach_stopOnFailure(st, S, fs) ==
    IF S = {} THEN st
    ELSE LET t == CHOOSE x \in S : \A y \in S : x <= y
         IN IF fs[t] # NoFailure THEN close(st, t, fs[t])
            ELSE closeEach_stopOnFailure(close(st, t, fs[t]), S \ {t}, fs)

\* Array.from(values()).map(t => t.close().catch(...)): every close() body
\* runs inside map(), one transport after the other
RECURSIVE closeEach(_, _, _)
closeEach(st, S, fs) ==
    IF S = {} THEN st
    ELSE LET t == CHOOSE x \in S : \A y \in S : x <= y
         IN closeEach(close(st, t, fs[t]), S \ {t}, fs)

CloseAllStart(fs) ==
    /\ NoPending
    /\ \A t \in T : (t \notin values(sessions) \/ closed[t]) => fs[t] = NoFailure
    /\ IF \E t \in T : fs[t] # NoFailure
       THEN faults < MaxFaults /\ faults' = faults + 1
       ELSE faults' = faults
    /\ LET snapshot == values(sessions)
       IN /\ Commit(closeEach(State, snapshot, fs))
          /\ closeAll' = [pc |-> "awaiting", snapshot |-> snapshot,
                          open |-> {t \in snapshot : ~closed[t]},
                          failed |-> {t \in snapshot : fs[t] # NoFailure}]
    /\ result' = Res("closeAllSessions", "pending", Undefined)
    /\ UNCHANGED <<nT, onmessage, delivered, sentOk, getPc, sdk>>

\* the continuation without this.sessions.clear()
CloseAllResume_noClear ==
    /\ closeAll.pc = "awaiting"
    /\ closeAll' = [pc |-> "idle", snapshot |-> {}, open |-> {}, failed |-> {}]
    /\ result' = Res("closeAllSessions", "resolved", Undefined)
    /\ UNCHANGED <<nT, sessionId, closed, onclose, onerror, onmessage, sink,
                   endCalls, oncloseCalls, onerrorCalls, attempts, delivered,
                   sentOk, getPc, sessions, sdk, faults>>

\* after `await Promise.all(closePromises)`: this.sessions.clear()
CloseAllResume ==
    /\ closeAll.pc = "awaiting"
    /\ sessions' = EmptyMap
    /\ closeAll' = [pc |-> "idle", snapshot |-> {}, open |-> {}, failed |-> {}]
    /\ result' = Res("closeAllSessions", "resolved", Undefined)
    /\ UNCHANGED <<nT, sessionId, closed, onclose, onerror, onmessage, sink,
                   endCalls, oncloseCalls, onerrorCalls, attempts, delivered,
                   sentOk, getPc, sdk, faults>>

\* -------------------------------------------------------------------- Next
Next ==
    \/ \E id \in uuidv4(Issued) : \E w \in WritesFor(sdk.starts) : \E f \in FailuresFor(w) :
          GetMcpEnter(id, w, f) /\ UNCHANGED shutdown
    \/ \E t \in Constructed : \E w \in WritesFor(~closed[t]) : \E f \in FailuresFor(w) :
          GetMcpResume(t, w, f) /\ UNCHANGED shutdown
    \/ \E sid \in Ids \cup {NoId}, body \in Bodies, throws \in BOOLEAN :
          Post(sid, body, throws) /\ UNCHANGED shutdown
    \/ \E t \in Constructed : \E w \in WritesFor(~closed[t]) : \E f \in FailuresFor(w) :
          Send(t, NextMessage, w, f) /\ UNCHANGED shutdown
    \/ \E t \in Constructed : \E f \in FailuresFor(IF closed[t] THEN 0 ELSE 1) :
          Close(t, f) /\ UNCHANGED shutdown
    \/ \E t \in Constructed : Disconnect(t) /\ UNCHANGED shutdown
    \/ \E fs \in [T -> Failures] : CloseAllStart(fs) /\ UNCHANGED shutdown
    \/ CloseAllResume /\ UNCHANGED shutdown

Spec == Init /\ [][Next]_vars

\* ------------------------------------------------------ process signals
\* process.on("SIGINT", ...) in SSE mode, up to the await inside
\* closeAllSessions(); one SIGINT is taken in a run
Sigint(fs) ==
    /\ shutdown.pc = "running"
    /\ CloseAllStart(fs)
    /\ shutdown' = [pc |-> "closingSessions", log |-> <<"closeAllSessions called">>]

\* closeAllSessions() resolves and the listener calls closeMongoDB()
SigintAfterCloseAll ==
    /\ shutdown.pc = "closingSessions"
    /\ CloseAllResume
    /\ shutdown' = [pc |-> "closingDb",
                    log |-> shutdown.log \o <<"closeAllSessions resolved",
                                              "closeMongoDB called">>]

\* closeMongoDB() settles (the driver's I/O) and the finally block exits
SigintAfterCloseDb(ok) ==
    /\ shutdown.pc = "closingDb"
    /\ NoPending
    /\ shutdown' = [pc |-> "exited",
                    log |-> shutdown.log \o <<IF ok THEN "closeMongoDB resolved"
                                              ELSE "closeMongoDB rejected",
                                              "exit">>]
    /\ UNCHANGED <<nT, sessionId, closed, onclose, onerror, onmessage, sink,
                   endCalls, oncloseCalls, onerrorCalls, attempts, delivered,
                   sentOk, getPc, sessions, closeAll, sdk, faults, result>>

\* SIGTERM: the program registers no listener for it, so the signal's
\* default disposition ends the process wherever it is
Sigterm ==
    /\ shutdown.pc # "exited"
    /\ shutdown' = [pc |-> "exited", log |-> Append(shutdown.log, "terminated")]
    /\ UNCHANGED <<nT, sessionId, closed, onclose, onerror, onmessage, sink,
                   endCalls, oncloseCalls, onerrorCalls, attempts, delivered,
                   sentOk, getPc, sessions, closeAll, sdk, faults, result>>

Running == shutdown.pc # "exited"

\* The routes in SSE mode with the termination signals; closeAllSessions()
\* is called by the SIGINT listener only
ShutdownNext ==
    \/ \E id \in uuidv4(Issued) : \E w \in WritesFor(sdk.starts) : \E f \in FailuresFor(w) :
          Running /\ GetMcpEnter(id, w, f) /\ UNCHANGED shutdown
    \/ \E t \in Constructed : \E w \in WritesFor(~closed[t]) : \E f \in FailuresFor(w) :
          Running /\ GetMcpResume(t, w, f) /\ UNCHANGED shutdown
    \/ \E t \in Constructed : \E f \in FailuresFor(IF closed[t] THEN 0 ELSE 1) :
          Running /\ Close(t, f) /\ UNCHANGED shutdown
    \/ \E t \in Constructed : Running /\ Disconnect(t) /\ UNCHANGED shutdown
    \/ \E fs \in [T -> Failures] : Sigint(fs)
    \/ SigintAfterCloseAll
    \/ \E ok \in BOOLEAN : SigintAfterCloseDb(ok)
    \/ Sigterm

ShutdownSpec == Init /\ [][ShutdownNext]_vars

\* The session store called directly, next to the routes that fill it
StoreNext ==
    \/ \E id \in uuidv4(Issued) : \E w \in WritesFor(sdk.starts) : \E f \in FailuresFor(w) :
          GetMcpEnter(id, w, f) /\ UNCHANGED shutdown
    \/ \E t \in Constructed : \E w \in WritesFor(~closed[t]) : \E f \in FailuresFor(w) :
          GetMcpResume(t, w, f) /\ UNCHANGED shutdown
    \/ \E t \in Constructed : \E f \in FailuresFor(IF closed[t] THEN 0 ELSE 1) :
          Close(t, f) /\ UNCHANGED shutdown
    \/ \E t \in Constructed : Disconnect(t) /\ UNCHANGED shutdown
    \/ \E t \in Constructed : RegisterSession(t) /\ UNCHANGED shutdown
    \/ \E id \in Ids : RemoveSession(id) /\ UNCHANGED shutdown
    \/ \E id \in Ids : GetSession(id) /\ UNCHANGED shutdown
    \/ \E fs \in [T -> Failures] : CloseAllStart(fs) /\ UNCHANGED shutdown
    \/ CloseAllResume /\ UNCHANGED shutdown

StoreSpec == Init /\ [][StoreNext]_vars

\* ------------------------------------------------- what the client reads
\* A frame is complete when its data line directly follows its event line.
IsFrameEnd(s, i) == i > 1 /\ s[i][1] = "data" /\ s[i - 1][1] = "event"

RECURSIVE FramesUpTo(_, _)
FramesUpTo(s, n) ==
    IF n = 0 THEN <<>>
    ELSE IF IsFrameEnd(s, n)
         THEN Append(FramesUpTo(s, n - 1), [kind |-> s[n - 1][2], data |-> s[n][2]])
         ELSE FramesUpTo(s, n - 1)

Frames(s) == FramesUpTo(s, Len(s))

OfKind(fr, kind) == SelectSeq(fr, LAMBDA x : x.kind = kind)

Encoded(msgs) == [i \in 1..Len(msgs) |-> [kind |-> "message", data |-> JSONstringify(msgs[i])]]

\* ------------------------------------------------------------------ claims

\* C1: the 'message' frames on a transport's sink are exactly the messages of
\* the send() calls whose writes succeeded, one frame per call, in call order.
C1_SendOrder ==
    \A t \in T : OfKind(Frames(sink[t]), "message") = Encoded(sentOk[t])

C1_Witness ==
    \E t \in T : /\ Len(sentOk[t]) = 2
                  /\ Len(OfKind(Frames(sink[t]), "message")) = 2
                  /\ result = Res("send", "ok", t)

\* C2: in a run without write failures every stream carries at most one
\* 'endpoint' envelope, no other envelope comes before it, and a stream whose
\* GET /mcp handler has finished carries exactly one.
C2_OneEndpointFirst ==
    faults = 0 =>
        \A t \in T :
            LET fr == Frames(sink[t])
            IN /\ Len(OfKind(fr, "endpoint")) <= 1
               /\ Len(fr) > 0 => fr[1].kind = "endpoint"
               /\ getPc[t] = "done" => Len(OfKind(fr, "endpoint")) = 1

\* C3: close() on a closed transport changes nothing (no write, no end(),
\* no callback, flag and registry as they were), whatever would fail.
C3_CloseIdempotent ==
    \A t \in Constructed, f \in Failures :
        closed[t] => close(State, t, f) = State

C3_Witness ==
    \E t \in Constructed :
        /\ closed[t]
        /\ endCalls[t] = 1
        /\ oncloseCalls[t] = 1
        /\ result = Res("close", "ok", t)
        /\ faults = 0
        /\ Len(OfKind(Frames(sink[t]), "close")) = 1
        /\ sessions # EmptyMap

\* C4: on a closed transport send() and handlePostMessage() reject with
\* 'Transport is closed', write nothing and do not invoke onmessage.
C4_ClosedRejects ==
    \A t \in Constructed, w \in WriteOutcomes, f \in Failures, throws \in BOOLEAN :
        closed[t] =>
            /\ send(State, t, NextMessage, w, f) = [st |-> State, threw |-> TRUE]
            /\ \A body \in Bodies :
                   handlePostMessage(State, delivered, onmessage, t, body, throws)
                       = [st |-> State, delivered |-> delivered, status |-> "closed",
                          trace |-> <<>>]

C4_Witness ==
    \E t \in Constructed :
        /\ closed[t]
        /\ endCalls[t] = 0
        /\ result = Res("send", "Transport is closed", t)

\* C5: a disconnect closes the transport, and onclose has been invoked once
\* for every closed transport and never for an open one.
C5_OncloseOnce ==
    \A t \in Constructed :
        /\ oncloseCalls[t] = IF closed[t] THEN 1 ELSE 0
        /\ onResponseClose(State, t).closed[t]
        /\ onResponseClose(State, t).oncloseCalls[t] = 1

C5_Witness ==
    \E t \in Constructed :
        /\ closed[t]
        /\ endCalls[t] = 0
        /\ oncloseCalls[t] = 1
        /\ result = Res("disconnect", "event", t)

\* C6: removeSession(id) of an absent id returns false and leaves the map as
\* it was, and getSession(id) is then undefined; removeSession(id) of a
\* present id returns true and a second removal would return false.
C6_RemoveAbsent ==
    [][\A id \in Ids :
          RemoveSession(id) =>
              IF id \in DOMAIN sessions
              THEN /\ result' = Res("removeSession", "true", Undefined)
                   /\ ~removeSessionResult(sessions', id)
              ELSE /\ result' = Res("removeSession", "false", Undefined)
                   /\ sessions' = sessions
                   /\ getSession(sessions', id) = Undefined]_vars

C6_Witness ==
    /\ result = Res("removeSession", "false", Undefined)
    /\ \E id \in Issued : id \notin DOMAIN sessions
    /\ \E t \in Constructed : ~closed[t]

\* C7: when closeAllSessions() resolves the registry is empty and every
\* transport of its snapshot is closed; each one that was open at the call
\* had a 'close' envelope write attempted.
C7_CloseAllClosesAll ==
    [][CloseAllResume =>
          /\ sessions' = EmptyMap
          /\ \A t \in closeAll.snapshot :
                 /\ closed'[t]
                 /\ t \in closeAll.open =>
                        Len(SelectSeq(attempts'[t], LAMBDA k : k = "close")) = 1]_vars

C7_Witness ==
    /\ result = Res("closeAllSessions", "resolved", Undefined)
    /\ sessions = EmptyMap
    /\ faults = 1
    /\ \A t \in T : closed[t] /\ endCalls[t] = 1 /\ onerrorCalls[t] > 0

C10_UnknownSession404 ==
    \A sid \in Ids, body \in Bodies, throws \in BOOLEAN :
        sid \notin DOMAIN sessions =>
            postMessages(State, delivered, onmessage, sid, body, throws)
                = [st |-> State, delivered |-> delivered, status |-> "404",
                   t |-> Undefined, lookups |-> 1, trace |-> <<"404">>]

C10_Witness ==
    /\ result = Res("post", "404", Undefined)
    /\ \E t \in Constructed : sessionId[t] \notin DOMAIN sessions
    /\ \E t \in Constructed : ~closed[t] /\ sessionId[t] \in DOMAIN sessions

C12_MissingSessionId400 ==
    [][\A body \in Bodies, throws \in BOOLEAN :
          Post(NoId, body, throws) =>
              /\ postMessages(State, delivered, onmessage, NoId, body, throws).lookups = 0
              /\ result' = Res("post", "400", Undefined)
              /\ delivered' = delivered
              /\ State' = State
              /\ UNCHANGED <<nT, onmessage, sentOk, getPc, closeAll, faults>>]_vars

C12_Witness ==
    /\ result = Res("post", "400", Undefined)
    /\ \E t \in Constructed : ~closed[t] /\ sessionId[t] \in DOMAIN sessions
    /\ \E t \in Constructed : closed[t]

\* C13: start() on a transport that is closed, or that has already been
\* started, rejects and writes no further 'endpoint' envelope.
C13_StartOnlyWhenCreated ==
    \A t \in Constructed :
        (closed[t] \/ Len(SelectSeq(attempts[t], LAMBDA k : k = "endpoint")) > 0) =>
            LET r == start(State, t, 0, NoFailure)
            IN /\ r.threw
               /\ r.st.sink[t] = sink[t]

\* C14: when a write of the 'endpoint' envelope throws during the route's
\* start() call, start() rejects (the route reaches its catch block) and the
\* transport is left closed.
C14_StartWriteFailureRejects ==
    [][\A t \in Constructed, w \in WriteOutcomes \ {0}, f \in Failures :
          (~closed[t] /\ GetMcpResume(t, w, f)) =>
              /\ closed'[t]
              /\ getPc'[t] = "failed"
              /\ result'.val \in {"error", "500"}]_vars

\* C15: when a write throws during send(m) on an open transport, the
\* transport is closed (flag set, onclose invoked once) and send() rejects.
C15_SendWriteFailureRejects ==
    [][\A t \in Constructed, w \in WriteOutcomes \ {0}, f \in Failures :
          (~closed[t] /\ Send(t, NextMessage, w, f)) =>
              /\ closed'[t]
              /\ oncloseCalls'[t] = oncloseCalls[t] + 1
              /\ result'.val # "ok"]_vars

\* A transport that a throwing write during start() or send() has closed:
\* it is closed and one of its 'endpoint' or 'message' frames is incomplete.
IsPayloadKind(k) == k \in {"endpoint", "message"}

ErroredOut(t) ==
    /\ closed[t]
    /\ Len(SelectSeq(attempts[t], IsPayloadKind))
           > Len(SelectSeq(Frames(sink[t]), LAMBDA x : IsPayloadKind(x.kind)))

\* C17: once a write failure during start() or send() has terminated a
\* session's transport, a POST /messages with that session id is answered
\* 404 and is not delivered to onmessage.
C17_ErroredSession404 ==
    [][\A t \in Constructed, body \in Bodies, throws \in BOOLEAN :
          (ErroredOut(t) /\ Post(sessionId[t], body, throws)) =>
              /\ result' = Res("post", "404", Undefined)
              /\ delivered' = delivered]_vars

\* C18: between handler executions no session id of the registry maps to a
\* transport whose closed flag is set.
C18_NoClosedEntry ==
    NoPending => \A k \in DOMAIN sessions : ~closed[sessions[k]]

\* C19: removeSession(id) leaves every transport as it was (closed flag,
\* sink, write attempts, end() and callback counts), and close() changes the
\* registry only through the route's onclose callback: by removing the
\* closing transport's own id when that callback is installed, not at all
\* otherwise.
C19_RemoveAndCloseIndependent ==
    [][/\ \A id \in Ids :
              RemoveSession(id) =>
                  /\ closed' = closed
                  /\ sink' = sink
                  /\ attempts' = attempts
                  /\ endCalls' = endCalls
                  /\ oncloseCalls' = oncloseCalls
                  /\ onerrorCalls' = onerrorCalls
                  /\ delivered' = delivered
       /\ \A t \in Constructed, f \in Failures :
              Close(t, f) =>
                  sessions' = IF ~closed[t] /\ onclose[t] = "cleanup"
                              THEN removeSession(sessions, sessionId[t])
                              ELSE sessions]_vars

C19_Witness ==
    /\ result = Res("removeSession", "true", Undefined)
    /\ \E t \in Constructed :
           /\ ~closed[t]
           /\ sessionId[t] \notin DOMAIN sessions
           /\ oncloseCalls[t] = 0
           /\ Len(OfKind(Frames(sink[t]), "endpoint")) = 1
           /\ Len(OfKind(Frames(sink[t]), "close")) = 0

C16_ShutdownOrder ==
    /\ shutdown.pc = "exited" =>
           /\ Len(shutdown.log) = 5
           /\ SubSeq(shutdown.log, 1, 3) = <<"closeAllSessions called",
                                             "closeAllSessions resolved",
                                             "closeMongoDB called">>
           /\ shutdown.log[5] = "exit"
    /\ (shutdown.pc = "closingDb" /\ result = Res("closeAllSessions", "resolved", Undefined)) =>
           \A t \in Constructed : closed[t]

\* C21: registerSession of a session id that is already in the registry is
\* reported as an error and does not replace the entry.
C21_RegisterNoSilentOverwrite ==
    [][\A t \in Constructed :
          (sessionId[t] \in DOMAIN sessions /\ RegisterSession(t)) =>
              /\ result'.val # "registered"
              /\ sessions' = sessions]_vars

\* what belongs to transport u is the same before and after the step
SameFor(u) ==
    /\ closed'[u] = closed[u]
    /\ sink'[u] = sink[u]
    /\ attempts'[u] = attempts[u]
    /\ endCalls'[u] = endCalls[u]
    /\ oncloseCalls'[u] = oncloseCalls[u]
    /\ onerrorCalls'[u] = onerrorCalls[u]
    /\ delivered'[u] = delivered[u]
    /\ \A k \in Ids :
           (getSession(sessions, k) = u) <=> (getSession(sessions', k) = u)

\* C22: a step in which a write or end() on one transport throws (during
\* start(), send() or close() of that transport) changes nothing of any
\* other transport: closed flag, sink, registry entry and callback counts
\* of every other transport stay as they were.
C22_ErrorIsolated ==
    [][(faults' # faults /\ closeAll' = closeAll) =>
          \E t \in T :
              /\ onerrorCalls'[t] > onerrorCalls[t]
              /\ closed'[t]
              /\ \A u \in T \ {t} : SameFor(u)]_vars

C22_Witness ==
    /\ faults = 1
    /\ closeAll.pc = "idle"
    /\ result = Res("send", "ok", Undefined)
    /\ \E t \in Constructed :
           /\ closed[t]
           /\ onerrorCalls[t] > 0
           /\ sessionId[t] \notin DOMAIN sessions
           /\ \E u \in Constructed \ {t} :
                  /\ ~closed[u]
                  /\ getSession(sessions, sessionId[u]) = u
                  /\ onerrorCalls[u] = 0
                  /\ Len(OfKind(Frames(sink[u]), "endpoint")) > 0

\* every chunk pair of the sink is the event line and the data line of one frame
WholeFrames(s) ==
    /\ Len(s) % 2 = 0
    /\ \A i \in 1..Len(s) :
           /\ s[i][1] = (IF i % 2 = 1 THEN "event" ELSE "data")
           /\ i % 2 = 1 => s[i][2] \in {"endpoint", "message", "close"}

\* C23: whatever calls and write failures have happened, the chunks accepted
\* by every sink form a sequence of whole frames: each event line is directly
\* followed by its own data line.
C23_WholeFrames ==
    \A t \in T : WholeFrames(sink[t])

CloseFrames(t) == Len(OfKind(Frames(sink[t]), "close"))

\* C24: a stream carries at most one 'close' envelope; the step that writes
\* it is the step that calls response.end(), for the first and only time,
\* and it is the last frame of the stream: once it is written, nothing more
\* is written to that sink.
C24_CloseEnvelopeLast ==
    [][\A t \in T :
          \/ sink'[t] = sink[t] /\ endCalls'[t] = endCalls[t]
          \/ LET before == Frames(sink[t])
                 after == Frames(sink'[t])
                 closeBefore == Len(OfKind(before, "close"))
                 closeAfter == Len(OfKind(after, "close"))
             IN /\ closeBefore = 0
                /\ closeAfter <= 1
                /\ endCalls'[t] <= 1
                /\ closeAfter = 1 =>
                       /\ endCalls[t] = 0
                       /\ endCalls'[t] = 1
                       /\ closed'[t]
                       /\ after[Len(after)].kind = "close"
                       /\ Len(after) = Len(before) + 1]_vars

C24_Witness ==
    \E t \in Constructed :
        /\ CloseFrames(t) = 1
        /\ endCalls[t] = 1
        /\ Len(OfKind(Frames(sink[t]), "message")) = 2
        /\ result = Res("send", "Transport is closed", t)

\* C25: in every POST /messages that reaches an open transport with a
\* registered callback, the callback is invoked once and has returned or
\* thrown before the response is sent: in the order of what the request did,
\* the one callback invocation comes before the one response.
C25_CallbackBeforeResponse ==
    [][\A sid \in Ids, body \in Bodies, throws \in BOOLEAN :
          (/\ result'.op = "post"
           /\ sid \in DOMAIN sessions
           /\ ~closed[sessions[sid]]
           /\ onmessage[sessions[sid]] # "unset"
           /\ Post(sid, body, throws)) =>
              LET trace == postMessages(State, delivered, onmessage, sid, body, throws).trace
                  IsCall(e) == e = "onmessage"
              IN /\ Len(SelectSeq(trace, IsCall)) = 1
                 /\ Len(Responses(trace)) = 1
                 /\ \E i, j \in 1..Len(trace) :
                        i < j /\ IsCall(trace[i]) /\ IsResponse(trace[j])
                 /\ delivered'[sessions[sid]] = Append(delivered[sessions[sid]], body)
                 /\ result'.val = Responses(trace)[1]]_vars

C25_Witness ==
    /\ result = Res("post", "500", Undefined)
    /\ \E t \in Constructed :
           /\ delivered[t] = <<"b1">>
           /\ onerrorCalls[t] = 1
           /\ ~closed[t]
           /\ faults = 0

\* C28: every POST /messages is answered exactly once: 400 without a
\* sessionId, 404 for a session id that is not registered, 500 when the
\* transport found is closed or its callback throws, 200 otherwise.
C28_OneResponse ==
    [][\A sid \in Ids \cup {NoId}, body \in Bodies, throws \in BOOLEAN :
          (result'.op = "post" /\ Post(sid, body, throws)) =>
              LET r == postMessages(State, delivered, onmessage, sid, body, throws)
                  expected ==
                      IF sid = NoId THEN "400"
                      ELSE IF sid \notin DOMAIN sessions THEN "404"
                      ELSE IF closed[sessions[sid]] \/ throws THEN "500"
                      ELSE "200"
              IN /\ Responses(r.trace) = <<expected>>
                 /\ result' = Res("post", expected, r.t)]_vars

C28_Witness ==
    /\ result = Res("post", "500", Undefined)
    /\ SumLen(delivered, T) = 0
    /\ \E t \in Constructed :
           /\ closed[t]
           /\ getSession(sessions, sessionId[t]) = t

\* C29: when the callback throws during a POST /messages, the answer is 500,
\* onerror is invoked once, and the transport stays open and registered
\* (flag, onclose count, sink and registry unchanged), so that a later send()
\* and a later handlePostMessage() on it succeed.
C29_CallbackThrowKeepsOpen ==
    [][\A sid \in Ids, body \in Bodies :
          (/\ result'.op = "post"
           /\ sid \in DOMAIN sessions
           /\ ~closed[sessions[sid]]
           /\ Post(sid, body, TRUE)) =>
              LET t == sessions[sid]
              IN /\ result' = Res("post", "500", t)
                 /\ onerrorCalls' = [onerrorCalls EXCEPT ![t] = @ + 1]
                 /\ closed' = closed
                 /\ oncloseCalls' = oncloseCalls
                 /\ sink' = sink
                 /\ attempts' = attempts
                 /\ endCalls' = endCalls
                 /\ sessions' = sessions
                 /\ ~send(State', t, NextMessage', 0, NoFailure).threw
                 /\ handlePostMessage(State', delivered', onmessage', t, body, FALSE).status
                        = "200"]_vars

C29_Witness ==
    /\ result = Res("post", "500", Undefined)
    /\ nT = 2
    /\ \E t \in Constructed :
           /\ delivered[t] = <<"b1">>
           /\ onerrorCalls[t] = 1
           /\ oncloseCalls[t] = 0
           /\ ~closed[t]
           /\ getSession(sessions, sessionId[t]) = t
           /\ Len(sentOk[t]) > 0

\* C26: when an 'endpoint' envelope is written on a transport's stream, it
\* carries messageEndpoint?sessionId=<that transport's session id>, and at
\* that moment the registry maps this id to this transport and the
\* transport's onclose is the route's cleanup closure.
C26_EndpointRoutesBack ==
    [][\A t \in T :
          \/ sink'[t] = sink[t]
          \/ LET before == OfKind(Frames(sink[t]), "endpoint")
                 after == OfKind(Frames(sink'[t]), "endpoint")
             IN Len(after) > Len(before) =>
                    /\ \A i \in 1..Len(after) :
                           after[i].data = endpointPayload(sessionId'[t])
                    /\ getSession(sessions', sessionId'[t]) = t
                    /\ onclose'[t] = "cleanup"]_vars

\* C27: after every step, each open transport is reachable through the
\* registry under its own session id, and every entry the step deleted (by a
\* cleanup callback or by the final clear() of closeAllSessions()) belonged
\* to a transport that is closed.
C27_NoOpenTransportDropped ==
    [][/\ \A t \in Constructed' :
              ~closed'[t] => getSession(sessions', sessionId'[t]) = t
       /\ \A k \in DOMAIN sessions \ DOMAIN sessions' : closed'[sessions[k]]]_vars

C27_Witness ==
    /\ nT = 2
    /\ closeAll.pc = "idle"
    /\ ~sdk.chains
    /\ closed[1] /\ endCalls[1] = 1
    /\ Len(OfKind(Frames(sink[1]), "close")) = 1
    /\ sessionId[1] \notin DOMAIN sessions
    /\ ~closed[2]
    /\ getPc[2] = "done"
    /\ getSession(sessions, sessionId[2]) = 2

\* C30: a step in which a write or end() on a transport throws, outside
\* closeAllSessions(), ends with that transport closed: after the frame whose
\* write failed at most one more frame write (the 'close' envelope) is
\* attempted, response.end() has been called exactly once and onclose once,
\* even when every write and end() fail.
C30_WriteFailureTerminates ==
    [][(faults' # faults /\ closeAll' = closeAll) =>
          \E t \in T :
              /\ ~closed[t] /\ closed'[t]
              /\ Len(attempts'[t]) - Len(attempts[t]) \in {1, 2}
              /\ attempts'[t][Len(attempts'[t])] = "close"
              /\ Len(SelectSeq(attempts'[t], LAMBDA k : k = "close")) = 1
              /\ endCalls[t] = 0 /\ endCalls'[t] = 1
              /\ oncloseCalls'[t] = oncloseCalls[t] + 1
              /\ onerrorCalls'[t] - onerrorCalls[t] \in 1..3]_vars

C30_Witness ==
    /\ faults = 1
    /\ result = Res("send", "ok", Undefined)
    /\ \E t \in Constructed :
           /\ closed[t]
           /\ endCalls[t] = 1
           /\ oncloseCalls[t] = 1
           /\ onerrorCalls[t] = 3
           /\ CloseFrames(t) = 0
           /\ Len(attempts[t]) >= 3
           /\ SubSeq(attempts[t], Len(attempts[t]) - 1, Len(attempts[t]))
                  = <<"message", "close">>

====
